---- MODULE Spec2Model ----
(***************************************************************************)
(* Content-generation pipeline of the ad creator                           *)
(* (src/src/agents/ad_creator/content_generator.py).                       *)
(*                                                                         *)
(* Strings are sequences of one-character strings.  Python's None is the   *)
(* record None; a present value v is Some(v).                              *)
(***************************************************************************)
EXTENDS Integers, Sequences, FiniteSets, TLC

VARIABLES
    pt_pc,        \* parse_titles harness: "idle", "call" or "done"
    pt_raw,       \* raw_output argument of parse_titles
    pt_budget,    \* max_title_length argument of parse_titles
    pt_result,    \* list returned by parse_titles
    pc,           \* generate_ad_content_graph: "idle", "call", a node name, END, "returned", "raised"
    in_product_input,      \* argument product_input
    in_market_data,        \* argument market_data
    in_max_title_length,   \* argument max_title_length
    state,        \* the GenerationState threaded through the graph
    executed,     \* nodes run so far, in order
    node_titles,  \* the "titles" entry of the dict returned by generate_titles_node
    result,       \* value returned by generate_ad_content_graph
    err_stages,   \* nodes whose returned dict carried a non-empty error_message
    llm_calls,    \* nodes that invoked the generative model, in order
    llm_failed,   \* nodes whose model invocation raised
    sg_pc,        \* single-node harness: "idle", "call", "merged" or "done"
    sg_node,      \* the node under call
    sg_state,     \* the GenerationState the node receives
    sg_llm,       \* what chain.invoke does in that call
    sg_delta,     \* the dict the node returns
    sg_content,   \* what the assembly builds from the merged state
    PROVIDER,        \* module global PROVIDER of content_generator
    llm_creative,    \* module global llm_creative: the provider its client talks to
    llm_analytical,  \* module global llm_analytical: the provider its client talks to
    ss_pc,        \* per UI session: "idle", "select", "set_creative", "set_analytical", a node, END
    ss_selected,  \* per UI session: st.session_state.selected_llm_provider
    ss_executed,  \* per UI session: nodes its invocation has run on its own state
    ss_clients    \* per UI session: providers its stages have invoked

pt_vars == <<pt_pc, pt_raw, pt_budget, pt_result>>

args == <<in_product_input, in_market_data, in_max_title_length>>

graph_vars == <<pc, state, executed, node_titles, result, err_stages, llm_calls, llm_failed>>

stage_vars == <<sg_pc, sg_node, sg_state, sg_llm, sg_delta, sg_content>>

session_vars ==
    <<PROVIDER, llm_creative, llm_analytical, ss_pc, ss_selected, ss_executed, ss_clients>>

vars == <<pt_vars, args, graph_vars, stage_vars, session_vars>>

None == [none |-> TRUE]
Some(v) == [val |-> v]

----------------------------------------------------------------------------
(* Bounds of the model *)

\* longest raw title output drawn from the full alphabet
MaxRawLen == 4
\* longest raw title output drawn from the line alphabet (letters and newlines)
MaxLinesLen == 12
\* largest budget handed directly to parse_titles
MaxBudget == 3

----------------------------------------------------------------------------
(* Python string primitives *)

SP == " "
NL == "\n"

\* characters removed by str.strip() / matched by \s
Whitespace == {SP, NL}
\* characters str.splitlines() breaks on
LineBreaks == {NL}
\* the class [-\*\d] of the list-marker pattern
MarkerChars == {"-", "*", "1"}

\* the sequences over alphabet of length at most maxlen
StringsOver(alphabet, maxlen) ==
    UNION {[1..n -> alphabet] : n \in 0..maxlen}

SetMax(S) == CHOOSE x \in S : \A y \in S : y <= x
SetMin(S) == CHOOSE x \in S : \A y \in S : x <= y

\* s[:n] for n >= 0
Slice(s, n) == SubSeq(s, 1, IF n < Len(s) THEN n ELSE Len(s))

\* first index >= from whose character is outside S, Len(s)+1 when there is none
FirstNotIn(s, from, S) ==
    LET idx == {i \in from..Len(s) : s[i] \notin S}
    IN  IF idx = {} THEN Len(s) + 1 ELSE SetMin(idx)

\* s.strip()
Strip(s) ==
    LET idx == {i \in 1..Len(s) : s[i] \notin Whitespace}
    IN  IF idx = {} THEN <<>> ELSE SubSeq(s, SetMin(idx), SetMax(idx))

\* s.rstrip()
RStrip(s) ==
    LET idx == {i \in 1..Len(s) : s[i] \notin Whitespace}
    IN  IF idx = {} THEN <<>> ELSE SubSeq(s, 1, SetMax(idx))

\* s.rfind(c): 0-based index of the last occurrence of c, -1 when absent
RFind(s, c) ==
    LET idx == {i \in 1..Len(s) : s[i] = c}
    IN  IF idx = {} THEN -1 ELSE SetMax(idx) - 1

\* c in s
Contains(s, c) == \E i \in 1..Len(s) : s[i] = c

\* s.splitlines()
RECURSIVE SplitLines(_)
SplitLines(s) ==
    IF s = <<>> THEN <<>>
    ELSE LET idx == {i \in 1..Len(s) : s[i] \in LineBreaks}
         IN  IF idx = {} THEN <<s>>
             ELSE LET nl == SetMin(idx)
                  IN  <<SubSeq(s, 1, nl - 1)>> \o SplitLines(SubSeq(s, nl + 1, Len(s)))

----------------------------------------------------------------------------
(* parse_titles *)

\* default budget of parse_titles and of the title stage
DefaultTitleLength == 60
\* number of titles kept
MaxTitles == 5

\* re.sub(r"^\s*[-\*\d]+\.\s*", "", title)
StripMarker(title) ==
    LET n  == Len(title)
        i0 == FirstNotIn(title, 1, Whitespace)
        j  == FirstNotIn(title, i0, MarkerChars)
    IN  IF j > i0 /\ j <= n /\ title[j] = "."
        THEN SubSeq(title, FirstNotIn(title, j + 1, Whitespace), n)
        ELSE title

\* the list comprehension of line 359: stripped non-blank lines
NonBlankLines(raw) ==
    LET lines == SplitLines(Strip(raw))
        kept  == SelectSeq(lines, LAMBDA l : Strip(l) # <<>>)
    IN  [i \in 1..Len(kept) |-> Strip(kept[i])]

\* the list comprehension of line 361
CleanedTitles(raw) ==
    LET titles == NonBlankLines(raw)
    IN  [i \in 1..Len(titles) |-> Strip(StripMarker(titles[i]))]

\* TruncateTitle without the hard cut when the prefix holds no space
TruncateTitleNoHardCut(title, max_title_length) ==
    IF Len(title) > max_title_length
    THEN IF Contains(Slice(title, max_title_length), SP)
         THEN LET last_space_pos == RFind(RStrip(Slice(title, max_title_length)), SP)
              IN  IF last_space_pos > 0
                  THEN Slice(title, last_space_pos)
                  ELSE Slice(title, max_title_length)
         ELSE title
    ELSE title

\* body of the loop of lines 369-383 for one title
TruncateTitle(title, max_title_length) ==
    IF Len(title) > max_title_length
    THEN IF Contains(Slice(title, max_title_length), SP)
         THEN LET last_space_pos == RFind(RStrip(Slice(title, max_title_length)), SP)
              IN  IF last_space_pos > 0
                  THEN Slice(title, last_space_pos)
                  ELSE Slice(title, max_title_length)
         ELSE Slice(title, max_title_length)
    ELSE title

ParseTitles(raw_output, max_title_length) ==
    IF raw_output = None \/ raw_output = Some(<<>>) THEN <<>>
    ELSE LET budget  == IF max_title_length = None
                        THEN DefaultTitleLength ELSE max_title_length.val
             cleaned == Slice(CleanedTitles(raw_output.val), MaxTitles)
         IN  [i \in 1..Len(cleaned) |-> TruncateTitle(cleaned[i], budget)]

----------------------------------------------------------------------------
(* GenerationState and the LangGraph merge of a node's returned dict *)

NodePrepare == "prepare_context"
NodeTitles == "generate_titles"
NodeDescription == "generate_description"
NodeAttributes == "generate_attributes"
NodeNcm == "suggest_ncm"
NodeFaq == "generate_faq"
END == "__end__"

\* the channels of StateGraph(GenerationState)
StateKeys ==
    {"product_input", "market_data", "llm_context", "max_title_length",
     "raw_titles_output", "raw_description_output", "key_attributes_to_fill",
     "suggested_faq", "suggested_ncm", "suggested_ncm_explanation",
     "final_content", "error_message", "ncm_suggestions", "raw_faq_output"}

\* GenerationState(product_input=..., market_data=..., max_title_length=...);
\* a channel never written reads as None through state.get
InitialState(pi, md, mtl) ==
    [k \in StateKeys |->
        CASE k = "product_input" -> pi
          [] k = "market_data" -> md
          [] k = "max_title_length" -> mtl
          [] OTHER -> None]

\* Merge that replaces the state by the node's dict
MergeReplacing(st, delta) ==
    [k \in StateKeys |-> IF k \in DOMAIN delta THEN delta[k] ELSE None]

\* the graph writes the entries of a node's dict that are channels, and only those
Merge(st, delta) ==
    [k \in StateKeys |-> IF k \in DOMAIN delta THEN delta[k] ELSE st[k]]

\* a node's dict sets a non-empty error_message
SetsError(delta) ==
    "error_message" \in DOMAIN delta /\ delta["error_message"] # None

\* outcome of chain.invoke: the model raises or returns a value
LlmRaise == [kind |-> "raise"]
LlmReturn(v) == [kind |-> "text", out |-> v]
\* the node returned before reaching chain.invoke
LlmNotCalled == [kind |-> "not_called"]

----------------------------------------------------------------------------
(* Node 1: prepare_context_node and _prepare_llm_context *)

\* entries of the JSON lists held by MarketResearchOutput: a dict, or another JSON value
EntryKinds == {"dict", "str"}

\* _prepare_llm_context: every a.get / t.get on a non-dict entry raises inside the
\* try, and the except returns None; otherwise the joined text is non-empty
PrepareLlmContext(pi, md) ==
    IF /\ \A i \in 1..Len(Slice(md.trends, 20)) : md.trends[i] = "dict"
       /\ \A i \in 1..Len(md.category_attributes) : md.category_attributes[i] = "dict"
    THEN Some([category_id |-> pi.category_id,
               trends |-> Len(Slice(md.trends, 20)),
               category_attributes |-> Len(md.category_attributes)])
    ELSE None

PrepareContextNode(st) ==
    LET context == PrepareLlmContext(st.product_input.val, st.market_data.val)
    IN  IF context = None
        THEN [llm_context |-> None, error_message |-> Some("Falha ao preparar contexto.")]
        ELSE [llm_context |-> context, error_message |-> None]

----------------------------------------------------------------------------
(* Node 2: generate_titles_node *)

\* limits outside which the title stage replaces the budget
MinSaneTitleLength == 50
MaxSaneTitleLength == 500

\* StageTitleLength without the range test of line 141
StageTitleLengthUnchecked(st) ==
    LET requested == st.max_title_length
    IN  IF requested = None \/ requested.val = 0 THEN DefaultTitleLength
        ELSE requested.val

\* lines 133-146: the budget the stage works with
StageTitleLength(st) ==
    LET requested == st.max_title_length
    IN  IF requested = None \/ requested.val = 0 THEN DefaultTitleLength
        ELSE IF requested.val < MinSaneTitleLength \/ requested.val > MaxSaneTitleLength
             THEN DefaultTitleLength
             ELSE requested.val

\* GenerateTitlesNode with the exception swallowed and nothing recorded
GenerateTitlesNodeSwallowing(st, llm) ==
    LET budget == StageTitleLength(st)
    IN  IF st.llm_context = None
        THEN [error_message |-> Some("Contexto ausente para gerar titulos.")]
        ELSE IF llm.kind = "raise"
        THEN [raw_titles_output |-> None]
        ELSE [raw_titles_output |-> Some(llm.out),
              titles |-> Slice(ParseTitles(Some(llm.out), Some(budget)), MaxTitles),
              max_title_length |-> Some(budget)]

GenerateTitlesNode(st, llm) ==
    LET budget == StageTitleLength(st)
    IN  IF st.llm_context = None
        THEN [error_message |-> Some("Contexto ausente para gerar titulos.")]
        ELSE IF llm.kind = "raise"
        THEN [error_message |-> Some("Erro na geracao de titulos")]
        ELSE [raw_titles_output |-> Some(llm.out),
              titles |-> Slice(ParseTitles(Some(llm.out), Some(budget)), MaxTitles),
              max_title_length |-> Some(budget)]

----------------------------------------------------------------------------
(* Node 3: generate_description_node *)

\* GenerateDescriptionNode that reports its success by clearing the error message
GenerateDescriptionNodeClearingError(st, llm) ==
    IF st.llm_context = None
    THEN [error_message |-> Some("Contexto LLM ausente para descricao.")]
    ELSE IF llm.kind = "raise"
    THEN [error_message |-> Some("Erro na geracao de descricao")]
    ELSE [raw_description_output |-> Some(llm.out), error_message |-> None]

\* GenerateDescriptionNode with the exception swallowed into an empty description
GenerateDescriptionNodeSilent(st, llm) ==
    IF st.llm_context = None
    THEN [error_message |-> Some("Contexto LLM ausente para descricao.")]
    ELSE IF llm.kind = "raise"
    THEN [raw_description_output |-> Some(<<>>)]
    ELSE [raw_description_output |-> Some(llm.out)]

GenerateDescriptionNode(st, llm) ==
    IF st.llm_context = None
    THEN [error_message |-> Some("Contexto LLM ausente para descricao.")]
    ELSE IF llm.kind = "raise"
    THEN [error_message |-> Some("Erro na geracao de descricao")]
    ELSE [raw_description_output |-> Some(llm.out)]

----------------------------------------------------------------------------
(* Node 4: generate_attributes_node *)

\* JSON values: a string, a number, a boolean, null, a list, or an object; each
\* kind keeps its payload in a field of its own
JStr(s) == [t |-> "str", v |-> s]
JNum(n) == [t |-> "num", n |-> n]
JNull == [t |-> "null"]
JBool(b) == [t |-> "bool", b |-> b]
JList(items) == [t |-> "list", items |-> items]
JDict(m) == [t |-> "dict", m |-> m]
\* a body json.loads rejects
JMalformed == [t |-> "malformed"]

\* str(n) for 0 <= n <= 9
DigitStr(n) == <<CASE n = 0 -> "0" [] n = 1 -> "1" [] n = 2 -> "2" [] n = 3 -> "3"
                   [] n = 4 -> "4" [] n = 5 -> "5" [] n = 6 -> "6" [] n = 7 -> "7"
                   [] n = 8 -> "8" [] OTHER -> "9">>

\* str(item) for a scalar
PyStr(x) ==
    CASE x.t = "str" -> x.v
      [] x.t = "num" -> DigitStr(x.n)
      [] x.t = "bool" -> IF x.b THEN <<"T", "r", "u", "e">>
                         ELSE <<"F", "a", "l", "s", "e">>
      [] OTHER -> <<"N", "o", "n", "e">>

\* ", ".join(str(item) for item in value)
RECURSIVE JoinItems(_)
JoinItems(items) ==
    IF items = <<>> THEN <<>>
    ELSE IF Len(items) = 1 THEN PyStr(items[1])
    ELSE PyStr(items[1]) \o <<",", SP>> \o JoinItems(Tail(items))

\* str(c) for each character of a string
Chars(str) == [i \in 1..Len(str) |-> JStr(<<str[i]>>)]

\* SanitizeValue that leaves a list as it is
SanitizeValueKeepingLists(value) ==
    IF value.t \notin {"null", "str", "list"} THEN JStr(PyStr(value))
    ELSE value

\* SanitizeValue that joins every iterable, a string included
SanitizeValueJoiningStrings(value) ==
    IF value.t = "list" THEN JStr(JoinItems(value.items))
    ELSE IF value.t = "str" THEN JStr(JoinItems(Chars(value.v)))
    ELSE IF value.t # "null" THEN JStr(PyStr(value))
    ELSE value

\* lines 236-246 (and 1493-1503) for one value
SanitizeValue(value) ==
    IF value.t = "list" THEN JStr(JoinItems(value.items))
    ELSE IF value.t # "null" /\ value.t # "str" THEN JStr(PyStr(value))
    ELSE value

SanitizeAttributes(m) == [k \in DOMAIN m |-> SanitizeValue(m[k])]

\* DecodeAttributes that unwraps a fence without the json tag as well
DecodeAttributesAnyFence(out) ==
    IF out.body = JMalformed THEN None
    ELSE Some(out.body)

\* re.sub(r'^```json\s*|\s*```$', '', raw.strip()) followed by json.loads: the text
\* is an optional code fence around a body; a fence without the json tag keeps its
\* opening line and does not decode
DecodeAttributes(out) ==
    IF out.fence = "plain" \/ out.body = JMalformed THEN None
    ELSE Some(out.body)

\* GenerateAttributesNode answering a missing context with an empty mapping
GenerateAttributesNodeEmptyWithoutContext(st, llm) ==
    IF st.llm_context = None
    THEN [key_attributes_to_fill |-> Some(<<>>)]
    ELSE IF llm.kind = "raise"
    THEN [error_message |-> Some("Erro na geracao de sugestoes de atributos")]
    ELSE LET parsed_attributes == DecodeAttributes(llm.out)
         IN  IF parsed_attributes = None
             THEN [error_message |-> Some("IA retornou formato invalido para atributos")]
             ELSE IF parsed_attributes.val.t # "dict"
             THEN [error_message |-> Some("IA retornou JSON invalido para atributos")]
             ELSE [key_attributes_to_fill |->
                      Some(SanitizeAttributes(parsed_attributes.val.m))]

GenerateAttributesNode(st, llm) ==
    IF st.llm_context = None
    THEN [error_message |-> Some("Contexto LLM ausente para atributos.")]
    ELSE IF llm.kind = "raise"
    THEN [error_message |-> Some("Erro na geracao de sugestoes de atributos")]
    ELSE LET parsed_attributes == DecodeAttributes(llm.out)
         IN  IF parsed_attributes = None
             THEN [error_message |-> Some("IA retornou formato invalido para atributos")]
             ELSE IF parsed_attributes.val.t # "dict"
             THEN [error_message |-> Some("IA retornou JSON invalido para atributos")]
             ELSE [key_attributes_to_fill |->
                      Some(SanitizeAttributes(parsed_attributes.val.m))]

----------------------------------------------------------------------------
(* Node 5 of the graph order: suggest_ncm_node *)

NCMSuggestion(code, expl, conf) ==
    [ncm_code |-> code, explanation |-> expl, confidence |-> conf]

\* elements of the decoded array: an object with string fields, or a scalar
ItemObj(fields) == [t |-> "obj", f |-> fields]
ItemNum == [t |-> "num"]

\* NCMSuggestion(**item) succeeds: a mapping holding the three required fields
\* (a missing field raises ValidationError, a non-mapping raises TypeError)
ValidShape(item) ==
    item.t = "obj" /\ {"ncm_code", "explanation", "confidence"} \subseteq DOMAIN item.f

\* lines 1252-1261.  A response is prose around at most one JSON array: `fenced'
\* says the array sits in a ```json block, `prose' is a bracketed fragment of the
\* prose ahead of the array (None when there is none).  The fenced pattern is
\* tried first and finds only a fenced array; the bare pattern finds the first
\* bracketed fragment of the text, whichever it is
ExtractJsonBlock(out) ==
    IF out.array # None /\ out.fenced THEN out.array
    ELSE IF out.prose # None THEN out.prose
    ELSE out.array

NcmFallback(expl) == Some(<<NCMSuggestion("ERRO", expl, "Baixa")>>)

\* line 1224 with the precondition on the attribute map dropped
NcmInsufficientIgnoringAttributes(st) ==
    \/ st.product_input = None
    \/ st.market_data = None

\* line 1224: not product_input or not market_data or not attributes_suggestions
\* (an empty dict is falsy too)
NcmInsufficient(st) ==
    \/ st.product_input = None
    \/ st.market_data = None
    \/ st.key_attributes_to_fill = None
    \/ DOMAIN st.key_attributes_to_fill.val = {}

RECURSIVE KeepValid(_)
KeepValid(items) ==
    IF items = <<>> THEN <<>>
    ELSE IF ValidShape(Head(items)) THEN <<Head(items)>> \o KeepValid(Tail(items))
    ELSE KeepValid(Tail(items))

\* ValidateItems with an invalid element skipped instead of failing the batch
ValidateItemsSkippingInvalid(parsed_json) ==
    LET kept == KeepValid(parsed_json)
    IN  Some([i \in 1..Len(kept) |->
                 NCMSuggestion(kept[i].f.ncm_code, kept[i].f.explanation,
                               kept[i].f.confidence)])

\* lines 1272-1284: every element becomes an NCMSuggestion, in the order of the
\* array; the first element that fails raises ValueError (None here)
ValidateItems(parsed_json) ==
    IF \E i \in 1..Len(parsed_json) : ~ValidShape(parsed_json[i])
    THEN None
    ELSE Some([i \in 1..Len(parsed_json) |->
                  NCMSuggestion(parsed_json[i].f.ncm_code,
                                parsed_json[i].f.explanation,
                                parsed_json[i].f.confidence)])

SuggestNcmNode(st, llm) ==
    IF NcmInsufficient(st)
    THEN [ncm_suggestions |->
             Some(<<NCMSuggestion("N/A", "Dados insuficientes para analise.", "Baixa")>>)]
    ELSE IF llm.kind = "raise"
    THEN [ncm_suggestions |-> NcmFallback("Falha geral no processamento: invoke")]
    ELSE LET json_match == ExtractJsonBlock(llm.out)
         IN  IF json_match = None
             THEN [ncm_suggestions |->
                      NcmFallback("Falha geral no processamento: Bloco JSON nao encontrado")]
             ELSE IF json_match.val = JMalformed
             THEN [ncm_suggestions |-> NcmFallback("Falha no parse do JSON")]
             ELSE LET validated_suggestions == ValidateItems(json_match.val.items)
                  IN  IF validated_suggestions = None
                      THEN [ncm_suggestions |->
                               NcmFallback("Falha geral no processamento: Item JSON invalido")]
                      ELSE [ncm_suggestions |-> validated_suggestions]

----------------------------------------------------------------------------
(* Node 6 of the graph order: generate_faq_node *)

\* A FAQ response is its text (empty or not) and, for the text _fix_json_string
\* makes of it, what each decoder gives: `strict' for json.loads, `lenient' for
\* json5.loads, `bracket' for the substring the regex (\[.*\]) finds (None when it
\* finds none) with what the two decoders give on that substring.  A decoder gives
\* None when it raises and Some(value) otherwise.
\* what the decoders give on the text "[]"
EmptyArrayText ==
    [strict |-> Some(JList(<<>>)), lenient |-> Some(JList(<<>>)),
     bracket |-> Some([strict |-> Some(JList(<<>>)), lenient |-> Some(JList(<<>>))])]

\* _fix_json_string, lines 1536-1603: "[]" for an empty text (line 1540) and when
\* the repair itself raises (line 1600), the repaired text otherwise
FixJsonString(out) ==
    IF out.text = <<>> THEN EmptyArrayText ELSE out.repaired

\* DecodeFaq that prefers the extracted array to the whole text
DecodeFaqBracketFirst(cleaned_output) ==
    IF cleaned_output.bracket # None /\ cleaned_output.bracket.val.strict # None
    THEN cleaned_output.bracket.val.strict
    ELSE IF cleaned_output.bracket # None /\ cleaned_output.bracket.val.lenient # None
    THEN cleaned_output.bracket.val.lenient
    ELSE IF cleaned_output.strict # None THEN cleaned_output.strict
    ELSE cleaned_output.lenient

\* lines 297-321: the first decoder that does not raise gives faq_list
DecodeFaq(cleaned_output) ==
    IF cleaned_output.strict # None THEN cleaned_output.strict
    ELSE IF cleaned_output.lenient # None THEN cleaned_output.lenient
    ELSE IF cleaned_output.bracket = None THEN None
    ELSE IF cleaned_output.bracket.val.strict # None THEN cleaned_output.bracket.val.strict
    ELSE cleaned_output.bracket.val.lenient

\* line 324: a list whose elements are all dicts holding pergunta and resposta
WellShapedFaq(faq_list) ==
    /\ faq_list.t = "list"
    /\ \A i \in 1..Len(faq_list.items) :
          /\ faq_list.items[i].t = "obj"
          /\ {"pergunta", "resposta"} \subseteq DOMAIN faq_list.items[i].f

\* ParseFaq with the shape check of line 324 left out
ParseFaqUnvalidated(out) ==
    LET faq_list == DecodeFaq(FixJsonString(out))
    IN  IF faq_list = None THEN <<>>
        ELSE IF faq_list.val.t = "list" THEN faq_list.val.items
        ELSE <<>>

\* lines 292-335: the structured list kept in suggested_faq
ParseFaq(out) ==
    LET faq_list == DecodeFaq(FixJsonString(out))
    IN  IF faq_list = None THEN <<>>
        ELSE IF WellShapedFaq(faq_list.val) THEN faq_list.val.items
        ELSE <<>>

GenerateFaqNode(st, llm) ==
    IF st.llm_context = None
    THEN [error_message |-> Some("Contexto LLM ausente para FAQ.")]
    ELSE IF llm.kind = "raise"
    THEN [error_message |-> Some("Erro na geracao de FAQ"),
          suggested_faq |-> Some(<<>>),
          raw_faq_output |-> None]
    ELSE [raw_faq_output |-> Some(llm.out),
          suggested_faq |-> Some(ParseFaq(llm.out))]

----------------------------------------------------------------------------
(* generate_ad_content_graph: entry, graph edges, assembly *)

\* category_limits.get(category_id, 60), lines 1311-1321
CategoryLimit(category_id) ==
    IF category_id \in {"MLB1246", "MLB8477"} THEN 150 ELSE DefaultTitleLength

\* lines 1309-1321: the budget placed in the initial state
ResolveTitleLength(pi, mtl) ==
    IF mtl = None THEN Some(CategoryLimit(pi.val.category_id)) ELSE mtl

\* Edge with the classification node left out of the chain
EdgeSkippingNcm(node) ==
    CASE node = NodePrepare -> NodeTitles
      [] node = NodeTitles -> NodeDescription
      [] node = NodeDescription -> NodeAttributes
      [] node = NodeAttributes -> NodeFaq
      [] node = NodeNcm -> NodeFaq
      [] node = NodeFaq -> END

\* Edge with the classification node wired to END, the FAQ node never run
EdgeEndingAfterNcm(node) ==
    CASE node = NodePrepare -> NodeTitles
      [] node = NodeTitles -> NodeDescription
      [] node = NodeDescription -> NodeAttributes
      [] node = NodeAttributes -> NodeNcm
      [] node = NodeNcm -> END
      [] node = NodeFaq -> END

\* workflow.add_edge, lines 1342-1347
Edge(node) ==
    CASE node = NodePrepare -> NodeTitles
      [] node = NodeTitles -> NodeDescription
      [] node = NodeDescription -> NodeAttributes
      [] node = NodeAttributes -> NodeNcm
      [] node = NodeNcm -> NodeFaq
      [] node = NodeFaq -> END

\* Advance with a guard that ends the run once an error message is set
AdvanceStoppingOnError(node, st) ==
    IF st.error_message # None THEN END ELSE Edge(node)

\* the compiled graph's transition after a node: its edge, whatever the state holds
Advance(node, st) == Edge(node)

\* faq_item.get(key, ''), lines 1395-1396
FaqGet(faq_item, key) == IF key \in DOMAIN faq_item THEN faq_item[key] ELSE ""

\* lines 1394-1399 and 1446-1451: one P/R paragraph for each pair that has both a
\* question and an answer
FormatPairs(pairs) ==
    SelectSeq(pairs, LAMBDA pair : pair.pergunta # "" /\ pair.resposta # "")

\* the pairs of the structured list
StructuredPairs(faq_list) ==
    [i \in 1..Len(faq_list) |->
        [pergunta |-> FaqGet(faq_list[i].f, "pergunta"),
         resposta |-> FaqGet(faq_list[i].f, "resposta")]]

\* CombineDescription that consults the raw text before the structured list
CombineDescriptionRawFirst(final_state) ==
    LET description_text == IF final_state.raw_description_output = None
                            THEN <<>> ELSE final_state.raw_description_output.val
        raw_faq  == final_state.raw_faq_output
        faq_list == IF final_state.suggested_faq = None
                    THEN <<>> ELSE final_state.suggested_faq.val
        has_raw  == raw_faq # None /\ raw_faq.val.text # <<>>
    IN  [text    |-> Strip(description_text),
         faq     |-> IF has_raw THEN FormatPairs(raw_faq.val.recovered)
                     ELSE FormatPairs(StructuredPairs(faq_list)),
         bullets |-> IF has_raw /\ raw_faq.val.recovered = <<>>
                     THEN raw_faq.val.bullets ELSE <<>>]

\* lines 1381-1476: the stripped description, the P/R paragraphs and the bullet
\* lines appended to it; the header alone is not appended (line 1473)
CombineDescription(final_state) ==
    LET description_text == IF final_state.raw_description_output = None
                            THEN <<>> ELSE final_state.raw_description_output.val
        raw_faq  == final_state.raw_faq_output
        faq_list == IF final_state.suggested_faq = None
                    THEN <<>> ELSE final_state.suggested_faq.val
        has_raw  == raw_faq # None /\ raw_faq.val.text # <<>>
    IN  [text    |-> Strip(description_text),
         faq     |-> IF faq_list # <<>> THEN FormatPairs(StructuredPairs(faq_list))
                     ELSE IF has_raw THEN FormatPairs(raw_faq.val.recovered)
                     ELSE <<>>,
         bullets |-> IF faq_list = <<>> /\ has_raw /\ raw_faq.val.recovered = <<>>
                     THEN raw_faq.val.bullets ELSE <<>>]

\* BuildContent that parses the raw titles again without the budget of the state
BuildContentDefaultBudget(final_state) ==
    LET final_titles == ParseTitles(final_state.raw_titles_output, None)
        raw_attributes == final_state.key_attributes_to_fill
    IN  Some([suggested_titles      |-> final_titles,
              suggested_description |-> CombineDescription(final_state),
              attributes            |-> IF raw_attributes = None THEN <<>>
                                        ELSE SanitizeAttributes(raw_attributes.val),
              ncm_suggestions       |-> IF final_state.ncm_suggestions = None THEN <<>>
                                        ELSE final_state.ncm_suggestions.val])

\* lines 1372-1520: the GeneratedAdContent built from a final state without error
BuildContent(final_state) ==
    LET final_max_title_length == final_state.max_title_length
        final_titles ==
            IF "titles" \in DOMAIN final_state /\ final_state["titles"] # <<>>
            THEN final_state["titles"]
            ELSE ParseTitles(final_state.raw_titles_output, final_max_title_length)
        raw_attributes == final_state.key_attributes_to_fill
    IN  Some([suggested_titles      |-> final_titles,
              suggested_description |-> CombineDescription(final_state),
              attributes            |-> IF raw_attributes = None THEN <<>>
                                        ELSE SanitizeAttributes(raw_attributes.val),
              ncm_suggestions       |-> IF final_state.ncm_suggestions = None THEN <<>>
                                        ELSE final_state.ncm_suggestions.val])

\* Assemble without the error check of lines 1366-1370
AssembleIgnoringError(final_state) == BuildContent(final_state)

\* lines 1365-1370, then the assembly
Assemble(final_state) ==
    IF final_state.error_message # None THEN None
    ELSE BuildContent(final_state)

----------------------------------------------------------------------------
(* Inputs of the pipeline: arguments and model responses *)

\* titles longer than the budget by up to this many characters
MaxOverrun == 1
\* longest array in a classification response
MaxNcmItems == 2

Word(n) == [i \in 1..n |-> "a"]

RECURSIVE JoinLines(_)
JoinLines(lines) ==
    IF lines = <<>> THEN <<>>
    ELSE IF Len(lines) = 1 THEN lines[1]
    ELSE lines[1] \o <<NL>> \o JoinLines(Tail(lines))

\* title responses for a prompt that states the budget: one line at or over the
\* budget (with and without spaces, with a list marker), no text, and more lines
\* than are kept
TitleResponses(budget) ==
    {Word(budget + k) : k \in 0..MaxOverrun}
    \cup {Word(1) \o <<SP>> \o Word(budget - 1 + k) : k \in 1..MaxOverrun}
    \cup {Word(budget - 1) \o <<SP>> \o Word(k) : k \in 1..MaxOverrun}
    \cup {<<"1", ".", SP>> \o Word(budget + k) : k \in 1..MaxOverrun}
    \cup {<<>>, JoinLines([i \in 1..(MaxTitles + 1) |-> Word(i)])}

DescriptionResponses == {<<>>, <<SP, "d", NL>>}

AttributeResponses ==
    {[fence |-> "none", body |-> JMalformed],
     [fence |-> "none", body |-> JList(<<>>)],
     [fence |-> "none", body |-> JDict(<<>>)],
     [fence |-> "plain", body |-> JDict([Cor |-> JStr(<<"x">>)])],
     [fence |-> "json",
      body |-> JDict([Cor |-> JStr(<<"x">>), Voltagem |-> JList(<<JNum(1), JStr(<<"x">>)>>),
                      Peso |-> JNum(2), Marca |-> JNull])]}

NcmItems ==
    {ItemObj(NCMSuggestion("8516.10.00", "e", "Alta")),
     ItemObj(NCMSuggestion("8419.19.90", "e", "Baixa")),
     ItemObj([ncm_code |-> "8516.79.90", explanation |-> "e"]),
     ItemNum}

\* bare responses: no array, an array json.loads rejects, and short arrays
NcmResponses ==
    {[fenced |-> FALSE, prose |-> None, array |-> a] :
        a \in {None, Some(JMalformed)}
               \cup {Some(JList(items)) : items \in StringsOver(NcmItems, MaxNcmItems)}}

QA == [pergunta |-> "q", resposta |-> "r"]
QAItem == ItemObj(QA)
\* a pair whose answer is the empty string
QAUnanswered == [pergunta |-> "q", resposta |-> ""]

\* every decoder raises
Undecodable == [strict |-> None, lenient |-> None, bracket |-> None]

\* a text json.loads decodes to the value v
StrictText(v) == [strict |-> Some(v), lenient |-> Some(v), bracket |-> None]

\* a well-formed FAQ array, a JSON object instead of an array, and free text;
\* `recovered' is the qa_pairs the text-recovery path of the assembly finds in
\* the text (lines 1404-1441), `bullets' the lines of its last resort (1454-1465)
FaqResponses ==
    {[text |-> <<"t">>, repaired |-> StrictText(JList(<<QAItem>>)),
      recovered |-> <<QA>>, bullets |-> <<>>],
     [text |-> <<"t">>, repaired |-> StrictText(JDict(<<>>)),
      recovered |-> <<>>, bullets |-> <<"t">>],
     [text |-> <<"t">>, repaired |-> Undecodable,
      recovered |-> <<QA>>, bullets |-> <<>>]}

ProductInputs ==
    {None, Some([category_id |-> "MLB1246"]), Some([category_id |-> "MLB1055"])}

MarketDatas ==
    {None,
     Some([trends |-> <<"dict">>, category_attributes |-> <<"dict">>]),
     Some([trends |-> <<"dict">>, category_attributes |-> <<"str">>])}

TitleLengthArgs == {None} \cup {Some(b) : b \in {0, 20, 49, 50, 200, 501}}

\* what chain.invoke may do when the node reaches it
Responses(reached, outs) ==
    IF reached THEN {LlmRaise} \cup {LlmReturn(o) : o \in outs} ELSE {LlmNotCalled}

----------------------------------------------------------------------------
(* Inputs of a single node call: the state it receives and the model's response *)

\* longest array in a classification response handed to the node alone
MaxNcmArray == 4
\* longest list value in an attribute response
MaxListLen == 2

\* a state as the graph hands it to a node after the earlier nodes have run
StageState(pi, md, ctx, attrs, ncm) ==
    [k \in StateKeys |->
        CASE k = "product_input" -> pi
          [] k = "market_data" -> md
          [] k = "llm_context" -> ctx
          [] k = "max_title_length" -> Some(DefaultTitleLength)
          [] k = "raw_titles_output" -> Some(<<"a">>)
          [] k = "raw_description_output" -> Some(<<"d">>)
          [] k = "key_attributes_to_fill" -> attrs
          [] k = "ncm_suggestions" -> ncm
          [] OTHER -> None]

SomeBrief == Some([category_id |-> "MLB1055"])
SomeMarket == Some([trends |-> <<"dict">>, category_attributes |-> <<"dict">>])
SomeContext == PrepareLlmContext(SomeBrief.val, SomeMarket.val)

\* classification: candidates of each tier, one with a confidence outside the
\* three tiers, and the two invalid elements of NcmItems
NcmStageItems ==
    NcmItems \cup {ItemObj(NCMSuggestion("8516.79.90", "e", "Media")),
                   ItemObj(NCMSuggestion("8516.60.00", "e", "Altissima"))}

\* a bracketed fragment such as "[3]" in the prose ahead of the array
ProseFragments == {None, Some(JList(<<ItemNum>>))}

NcmStageResponses ==
    {[fenced |-> FALSE, prose |-> pr, array |-> None] : pr \in ProseFragments}
    \cup {[fenced |-> f, prose |-> pr, array |-> a] :
             f \in BOOLEAN, pr \in ProseFragments,
             a \in {Some(JMalformed)}
                    \cup {Some(JList(items)) :
                             items \in StringsOver(NcmStageItems, MaxNcmArray)}}

NcmStageStates ==
    {StageState(pi, md, SomeContext, attrs, None) :
        pi \in {None, SomeBrief}, md \in {None, SomeMarket},
        attrs \in {None, Some(<<>>), Some([Cor |-> JStr(<<"x">>)])}}

\* attributes: mappings over two keys whose values are strings, numbers,
\* booleans, null and lists of scalars
AttrScalars == {JStr(<<"x">>), JNum(1), JNull}

AttrValues ==
    {JStr(<<>>), JStr(<<"x", "y">>), JNum(0), JBool(TRUE), JNull}
    \cup {JList(items) : items \in StringsOver(AttrScalars, MaxListLen)}

AttrMappings == UNION {[keys -> AttrValues] : keys \in SUBSET {"Cor", "Peso"}}

AttributeStageResponses ==
    {[fence |-> f, body |-> b] :
        f \in {"none", "json", "plain"},
        b \in {JMalformed, JList(<<>>)} \cup {JDict(m) : m \in AttrMappings}}

AttributeStageStates ==
    {StageState(SomeBrief, SomeMarket, ctx, None, None) : ctx \in {None, SomeContext}}

\* titles: a state whose budget is absent, zero, at and just outside each limit of
\* the range of line 141, or a category limit
TitleBudgets ==
    {None} \cup {Some(b) : b \in {0, MinSaneTitleLength - 1, MinSaneTitleLength,
                                  CategoryLimit("MLB1246"),
                                  MaxSaneTitleLength, MaxSaneTitleLength + 1}}

TitleStageStates ==
    {[StageState(SomeBrief, SomeMarket, ctx, None, None)
         EXCEPT !["max_title_length"] = b,
                !["raw_titles_output"] = None,
                !["raw_description_output"] = None] :
        ctx \in {None, SomeContext}, b \in TitleBudgets}

\* FAQ: what a decoder gives is a failure, or one of these values
FaqValues ==
    {JList(<<>>), JList(<<QAItem>>), JList(<<QAItem, ItemObj([pergunta |-> "q"])>>),
     JList(<<ItemObj(QAUnanswered)>>), JDict(<<>>)}

FaqOutcomes == {None} \cup {Some(v) : v \in FaqValues}

\* json5 accepts what json accepts, with the same value
DecoderPairs ==
    {p \in [strict : FaqOutcomes, lenient : FaqOutcomes] :
        p.strict # None => p.lenient = p.strict}

RepairedTexts ==
    {[strict |-> p.strict, lenient |-> p.lenient, bracket |-> br] :
        p \in DecoderPairs, br \in {None} \cup {Some(q) : q \in DecoderPairs}}

\* what the recovery path of the assembly finds: nothing, bullet lines only, a
\* pair, a pair without answer
RecoveredTexts ==
    {[pairs |-> <<>>, bullets |-> <<>>],
     [pairs |-> <<>>, bullets |-> <<"t">>],
     [pairs |-> <<QA>>, bullets |-> <<>>],
     [pairs |-> <<QAUnanswered>>, bullets |-> <<>>]}

FaqStageResponses ==
    {[text |-> <<>>, repaired |-> EmptyArrayText, recovered |-> <<>>, bullets |-> <<>>]}
    \cup {[text |-> <<"t">>, repaired |-> r, recovered |-> rec.pairs,
           bullets |-> rec.bullets] :
             r \in RepairedTexts, rec \in RecoveredTexts}

FaqStageStates ==
    {[StageState(SomeBrief, SomeMarket, ctx, Some([Cor |-> JStr(<<"x">>)]),
                 Some(<<NCMSuggestion("8516.10.00", "e", "Alta")>>))
         EXCEPT !["raw_description_output"] = Some(<<SP, "d", SP>>)] :
        ctx \in {None, SomeContext}}

----------------------------------------------------------------------------
(* UI sessions of app_visual.py: threads of one process sharing the module *)

Sessions == {"A", "B"}
Providers == {"anthropic", "openai"}

\* the module global a node builds its chain with (lines 156, 191, 218, 279, 1247)
ClientOf(node) ==
    CASE node \in {NodeTitles, NodeDescription} -> {llm_creative}
      [] node \in {NodeAttributes, NodeNcm, NodeFaq} -> {llm_analytical}
      [] OTHER -> {}

\* content_generator as imported (lines 39, 60, 76), no session generating
SessionsIdle ==
    /\ PROVIDER = "anthropic"
    /\ llm_creative = "anthropic"
    /\ llm_analytical = "anthropic"
    /\ ss_pc = [s \in Sessions |-> "idle"]
    /\ ss_selected = [s \in Sessions |-> "anthropic"]
    /\ ss_executed = [s \in Sessions |-> <<>>]
    /\ ss_clients = [s \in Sessions |-> {}]

----------------------------------------------------------------------------
(* Specification Spec: one invocation of generate_ad_content_graph *)

TitlesIdle ==
    /\ pt_pc = "idle"
    /\ pt_raw = None
    /\ pt_budget = None
    /\ pt_result = <<>>

StageIdle ==
    /\ sg_pc = "idle"
    /\ sg_node = "idle"
    /\ sg_state = None
    /\ sg_llm = None
    /\ sg_delta = None
    /\ sg_content = None

Init ==
    /\ pt_pc = "idle"
    /\ pt_raw = None
    /\ pt_budget = None
    /\ pt_result = <<>>
    /\ StageIdle
    /\ SessionsIdle
    /\ pc = "call"
    /\ in_product_input \in ProductInputs
    /\ in_market_data \in MarketDatas
    /\ in_max_title_length \in TitleLengthArgs
    /\ state = None
    /\ executed = <<>>
    /\ node_titles = None
    /\ result = None
    /\ err_stages = {}
    /\ llm_calls = <<>>
    /\ llm_failed = {}

\* lines 1309-1357: with product_input None, product_input.category_id raises
\* AttributeError (line 1319, or line 1323 when a budget is given) before the
\* check of line 1325
Call ==
    /\ pc = "call"
    /\ IF in_product_input = None
       THEN /\ pc' = "raised"
            /\ UNCHANGED <<state, result>>
       ELSE IF in_market_data = None
       THEN /\ pc' = "returned"
            /\ result' = None
            /\ UNCHANGED state
       ELSE /\ pc' = NodePrepare
            /\ state' = InitialState(in_product_input, in_market_data,
                                     ResolveTitleLength(in_product_input, in_max_title_length))
            /\ UNCHANGED result
    /\ UNCHANGED <<pt_vars, stage_vars, session_vars, args, executed, node_titles, err_stages,
                   llm_calls, llm_failed>>

\* one superstep of app.invoke: the node runs, its dict is merged, the edge is taken
Step(node, delta, llm) ==
    /\ state' = Merge(state, delta)
    /\ executed' = Append(executed, node)
    /\ err_stages' = IF SetsError(delta) THEN err_stages \cup {node} ELSE err_stages
    /\ llm_calls' = IF llm.kind = "not_called" THEN llm_calls ELSE Append(llm_calls, node)
    /\ llm_failed' = IF llm.kind = "raise" THEN llm_failed \cup {node} ELSE llm_failed
    /\ pc' = Advance(node, Merge(state, delta))
    /\ UNCHANGED <<pt_vars, stage_vars, session_vars, args, result>>

RunPrepareContext ==
    /\ pc = NodePrepare
    /\ Step(NodePrepare, PrepareContextNode(state), LlmNotCalled)
    /\ UNCHANGED node_titles

RunGenerateTitles ==
    /\ pc = NodeTitles
    /\ \E llm \in Responses(state.llm_context # None,
                            TitleResponses(StageTitleLength(state))) :
          LET delta == GenerateTitlesNode(state, llm)
          IN  /\ Step(NodeTitles, delta, llm)
              /\ node_titles' = IF "titles" \in DOMAIN delta
                                THEN Some(delta.titles) ELSE None

RunGenerateDescription ==
    /\ pc = NodeDescription
    /\ \E llm \in Responses(state.llm_context # None, DescriptionResponses) :
          Step(NodeDescription, GenerateDescriptionNode(state, llm), llm)
    /\ UNCHANGED node_titles

RunGenerateAttributes ==
    /\ pc = NodeAttributes
    /\ \E llm \in Responses(state.llm_context # None, AttributeResponses) :
          Step(NodeAttributes, GenerateAttributesNode(state, llm), llm)
    /\ UNCHANGED node_titles

RunSuggestNcm ==
    /\ pc = NodeNcm
    /\ \E llm \in Responses(~NcmInsufficient(state), NcmResponses) :
          Step(NodeNcm, SuggestNcmNode(state, llm), llm)
    /\ UNCHANGED node_titles

RunGenerateFaq ==
    /\ pc = NodeFaq
    /\ \E llm \in Responses(state.llm_context # None, FaqResponses) :
          Step(NodeFaq, GenerateFaqNode(state, llm), llm)
    /\ UNCHANGED node_titles

\* lines 1363-1527: app.invoke has returned the final state
Return ==
    /\ pc = END
    /\ result' = Assemble(state)
    /\ pc' = "returned"
    /\ UNCHANGED <<pt_vars, stage_vars, session_vars, args, state, executed, node_titles,
                   err_stages, llm_calls, llm_failed>>

Next ==
    \/ Call
    \/ RunPrepareContext
    \/ RunGenerateTitles
    \/ RunGenerateDescription
    \/ RunGenerateAttributes
    \/ RunSuggestNcm
    \/ RunGenerateFaq
    \/ Return

Spec == Init /\ [][Next]_vars

\* a node of the graph is run
RunNode ==
    \/ RunPrepareContext
    \/ RunGenerateTitles
    \/ RunGenerateDescription
    \/ RunGenerateAttributes
    \/ RunSuggestNcm
    \/ RunGenerateFaq

\* Return as it shows on pc: the only step that leaves END, enabled whenever
\* pc = END
ReturnTaken == pc = END /\ pc' = "returned"

\* app.invoke is synchronous and runs one node after the other: a step that is
\* enabled is taken once the node's model call has returned or raised
SpecFair == Spec /\ WF_vars(Call \/ RunNode) /\ WF_pc(ReturnTaken)

----------------------------------------------------------------------------
(* Specification SpecTitles: parse_titles applied to bounded inputs *)

TitleAlphabet == {"a", SP, "-", "1", ".", NL}
LineAlphabet == {"a", NL}

RawTitleInputs ==
    StringsOver(TitleAlphabet, MaxRawLen) \cup StringsOver(LineAlphabet, MaxLinesLen)

PipelineIdle ==
    /\ pc = "idle"
    /\ in_product_input = None
    /\ in_market_data = None
    /\ in_max_title_length = None
    /\ state = None
    /\ executed = <<>>
    /\ node_titles = None
    /\ result = None
    /\ err_stages = {}
    /\ llm_calls = <<>>
    /\ llm_failed = {}

TitlesInit ==
    /\ PipelineIdle
    /\ StageIdle
    /\ SessionsIdle
    /\ pt_pc = "call"
    /\ pt_raw \in {None} \cup {Some(s) : s \in RawTitleInputs}
    /\ pt_budget \in {None} \cup {Some(b) : b \in 1..MaxBudget}
    /\ pt_result = <<>>

CallParseTitles ==
    /\ pt_pc = "call"
    /\ pt_result' = ParseTitles(pt_raw, pt_budget)
    /\ pt_pc' = "done"
    /\ UNCHANGED <<pt_raw, pt_budget, args, graph_vars, stage_vars, session_vars>>

TitlesNext == CallParseTitles

SpecTitles == TitlesInit /\ [][TitlesNext]_vars

----------------------------------------------------------------------------
(* Specification SpecStage: one node called on a state, then the assembly *)

StageInit ==
    /\ PipelineIdle
    /\ TitlesIdle
    /\ SessionsIdle
    /\ sg_pc = "call"
    /\ sg_delta = None
    /\ sg_content = None
    /\ \/ /\ sg_node = NodeTitles
          /\ sg_state \in TitleStageStates
          /\ sg_llm \in Responses(sg_state.llm_context # None,
                                  TitleResponses(StageTitleLength(sg_state)))
       \/ /\ sg_node = NodeAttributes
          /\ sg_state \in AttributeStageStates
          /\ sg_llm \in Responses(sg_state.llm_context # None, AttributeStageResponses)
       \/ /\ sg_node = NodeNcm
          /\ sg_state \in NcmStageStates
          /\ sg_llm \in Responses(~NcmInsufficient(sg_state), NcmStageResponses)
       \/ /\ sg_node = NodeFaq
          /\ sg_state \in FaqStageStates
          /\ sg_llm \in Responses(sg_state.llm_context # None, FaqStageResponses)

CallNode(node, delta) ==
    /\ sg_pc = "call"
    /\ sg_node = node
    /\ sg_delta' = delta
    /\ sg_pc' = "merged"
    /\ UNCHANGED <<sg_node, sg_state, sg_llm, sg_content, pt_vars, args, graph_vars,
                   session_vars>>

CallGenerateTitles == CallNode(NodeTitles, GenerateTitlesNode(sg_state, sg_llm))

CallGenerateAttributes == CallNode(NodeAttributes, GenerateAttributesNode(sg_state, sg_llm))

CallSuggestNcm == CallNode(NodeNcm, SuggestNcmNode(sg_state, sg_llm))

CallGenerateFaq == CallNode(NodeFaq, GenerateFaqNode(sg_state, sg_llm))

\* the returned dict is merged and the assembly of lines 1365-1520 runs on it
AssembleStage ==
    /\ sg_pc = "merged"
    /\ sg_content' = Assemble(Merge(sg_state, sg_delta))
    /\ sg_pc' = "done"
    /\ UNCHANGED <<sg_node, sg_state, sg_llm, sg_delta, pt_vars, args, graph_vars,
                   session_vars>>

StageNext ==
    \/ CallGenerateTitles
    \/ CallGenerateAttributes
    \/ CallSuggestNcm
    \/ CallGenerateFaq
    \/ AssembleStage

SpecStage == StageInit /\ [][StageNext]_vars

----------------------------------------------------------------------------
(* Specification SpecSessions: two UI sessions generating at the same time *)

SessionsInit ==
    /\ PipelineIdle
    /\ TitlesIdle
    /\ StageIdle
    /\ PROVIDER = "anthropic"
    /\ llm_creative = "anthropic"
    /\ llm_analytical = "anthropic"
    /\ ss_pc = [s \in Sessions |-> "select"]
    /\ ss_selected \in [Sessions -> Providers]
    /\ ss_executed = [s \in Sessions |-> <<>>]
    /\ ss_clients = [s \in Sessions |-> {}]

SessionFrame == UNCHANGED <<pt_vars, args, graph_vars, stage_vars, ss_selected>>

\* app_visual.py line 661: content_generator.PROVIDER = selected provider
SwitchProvider(s) ==
    /\ ss_pc[s] = "select"
    /\ PROVIDER' = ss_selected[s]
    /\ ss_pc' = [ss_pc EXCEPT ![s] = "set_creative"]
    /\ UNCHANGED <<llm_creative, llm_analytical, ss_executed, ss_clients>>
    /\ SessionFrame

\* app_visual.py lines 674-679: llm_creative rebuilt from content_generator.PROVIDER
RecreateCreative(s) ==
    /\ ss_pc[s] = "set_creative"
    /\ llm_creative' = PROVIDER
    /\ ss_pc' = [ss_pc EXCEPT ![s] = "set_analytical"]
    /\ UNCHANGED <<PROVIDER, llm_analytical, ss_executed, ss_clients>>
    /\ SessionFrame

\* app_visual.py lines 681-686, then the call of line 693 enters the graph
RecreateAnalytical(s) ==
    /\ ss_pc[s] = "set_analytical"
    /\ llm_analytical' = PROVIDER
    /\ ss_pc' = [ss_pc EXCEPT ![s] = NodePrepare]
    /\ UNCHANGED <<PROVIDER, llm_creative, ss_executed, ss_clients>>
    /\ SessionFrame

\* a node of the session's own graph run: it works on the session's own
\* GenerationState (line 1352) and builds its chain with the module global
SessionRunNode(s) ==
    /\ ss_pc[s] \in {NodePrepare, NodeTitles, NodeDescription, NodeAttributes,
                     NodeNcm, NodeFaq}
    /\ ss_executed' = [ss_executed EXCEPT ![s] = Append(@, ss_pc[s])]
    /\ ss_clients' = [ss_clients EXCEPT ![s] = @ \cup ClientOf(ss_pc[s])]
    /\ ss_pc' = [ss_pc EXCEPT ![s] = Edge(ss_pc[s])]
    /\ UNCHANGED <<PROVIDER, llm_creative, llm_analytical>>
    /\ SessionFrame

SessionsNext ==
    \E s \in Sessions :
       \/ SwitchProvider(s)
       \/ RecreateCreative(s)
       \/ RecreateAnalytical(s)
       \/ SessionRunNode(s)

SpecSessions == SessionsInit /\ [][SessionsNext]_vars

----------------------------------------------------------------------------
(* Properties *)

Nodes == {NodePrepare, NodeTitles, NodeDescription, NodeAttributes, NodeNcm, NodeFaq}

\* the stages that the failure policy of the claims names
GenerationStages == {NodeTitles, NodeDescription, NodeAttributes, NodeFaq}

StageOrder ==
    <<NodePrepare, NodeTitles, NodeDescription, NodeAttributes, NodeNcm, NodeFaq>>

Ran(node) == \E i \in 1..Len(executed) : executed[i] = node

\* C1: for a caller-supplied budget B in 20..200, every title returned by the
\* title stage has length <= B.
C1_StageTitlesWithinCallerBudget ==
    (/\ in_max_title_length # None
     /\ in_max_title_length.val \in 20..200
     /\ node_titles # None)
    => \A i \in 1..Len(node_titles.val) :
          Len(node_titles.val[i]) <= in_max_title_length.val

\* C2: for any raw text and any positive budget B, parse_titles returns at most
\* 5 titles, each of length <= B.
C2_ParseTitlesPostcondition ==
    (pt_pc = "done" /\ pt_budget # None)
    => /\ Len(pt_result) <= 5
       /\ \A i \in 1..Len(pt_result) : Len(pt_result[i]) <= pt_budget.val

\* parse_titles met more than 5 non-blank lines and a title over the budget, and
\* returned 5 titles with that one cut to the budget
C2_Witness ==
    /\ pt_pc = "done"
    /\ pt_raw # None
    /\ pt_budget # None
    /\ Len(NonBlankLines(pt_raw.val)) > 5
    /\ Len(pt_result) = 5
    /\ \E i \in 1..5 : /\ Len(CleanedTitles(pt_raw.val)[i]) > pt_budget.val
                       /\ Len(pt_result[i]) = pt_budget.val

\* C3: no title returned by parse_titles is the empty string.
C3_TitlesNonEmpty ==
    pt_pc = "done" => \A i \in 1..Len(pt_result) : Len(pt_result[i]) >= 1

\* C4: a title longer than the budget B with whitespace before position B is
\* returned cut at the last whitespace of index < B, without trailing whitespace.
C4_TruncationAtLastWhitespace ==
    (pt_pc = "done" /\ pt_raw # None /\ pt_budget # None)
    => \A i \in 1..Len(pt_result) :
          LET title == CleanedTitles(pt_raw.val)[i]
              ws    == {p \in 1..pt_budget.val : p <= Len(title) /\ title[p] \in Whitespace}
          IN  (Len(title) > pt_budget.val /\ ws # {})
              => pt_result[i] = RStrip(SubSeq(title, 1, SetMax(ws) - 1))

\* C5: in every run that starts the graph the nodes run in the order
\* prepare_context, generate_titles, generate_description, generate_attributes,
\* suggest_ncm, generate_faq, END, none skipped, repeated or reordered.
C5_PipelineOrdering ==
    /\ Len(executed) <= Len(StageOrder)
    /\ executed = SubSeq(StageOrder, 1, Len(executed))
    /\ pc \in Nodes => pc = StageOrder[Len(executed) + 1]
    /\ pc = END => executed = StageOrder
    /\ (pc = "returned" /\ executed # <<>>) => executed = StageOrder

C5_Witness == pc = END /\ executed = StageOrder /\ err_stages = {}

\* C6: once a stage has recorded an error message, the run still reaches END
\* only after every node has run exactly once.
C6_NoShortCircuit ==
    (err_stages # {} /\ pc \in {END, "returned"})
    => \A n \in Nodes : Cardinality({i \in 1..Len(executed) : executed[i] = n}) = 1

C6_Witness ==
    /\ pc = END
    /\ NodeTitles \in err_stages
    /\ state.error_message # None
    /\ Ran(NodeFaq)

\* C7: a run in which a stage recorded an error message never returns a
\* GeneratedAdContent to the caller.
C7_FailureSurfaced ==
    (pc = "returned" /\ err_stages # {}) => result = None

\* the title stage alone recorded an error, every later stage succeeded, and the
\* caller got None
C7_Witness ==
    /\ pc = "returned"
    /\ err_stages = {NodeTitles}
    /\ llm_calls = <<NodeTitles, NodeDescription, NodeAttributes, NodeNcm, NodeFaq>>
    /\ result = None

\* C8 as claimed: when the model invocation of a single generation stage fails,
\* the invocation still returns a GeneratedAdContent.
C8_StageFailureStillReturnsContent ==
    (/\ pc = "returned"
     /\ Cardinality(llm_failed) = 1
     /\ llm_failed \subseteq GenerationStages)
    => result # None

\* C8 amended: when the model invocation of a generation stage fails, the failure
\* is recorded, the stage's slot holds no output, every node still runs, and the
\* invocation returns None.
C8_StageFailureReturnsNone ==
    (pc = "returned" /\ llm_failed \cap GenerationStages # {})
    => /\ result = None
       /\ (llm_failed \cap GenerationStages) \subseteq err_stages
       /\ state.error_message # None
       /\ executed = StageOrder
       /\ NodeTitles \in llm_failed => state.raw_titles_output = None
       /\ NodeDescription \in llm_failed => state.raw_description_output = None
       /\ NodeAttributes \in llm_failed => state.key_attributes_to_fill = None
       /\ NodeFaq \in llm_failed =>
              state.raw_faq_output = None /\ state.suggested_faq = Some(<<>>)

\* the description call alone failed, after titles had been produced
C8_Witness ==
    /\ pc = "returned"
    /\ llm_failed = {NodeDescription}
    /\ state.raw_titles_output # None
    /\ state.key_attributes_to_fill # None
    /\ result = None

\* C9: generate_ad_content_graph never raises, and with an absent brief or market
\* context it returns None without running a node.
C9_EntryPointNeverRaises ==
    /\ pc # "raised"
    /\ (pc = "returned" /\ (in_product_input = None \/ in_market_data = None))
       => (result = None /\ executed = <<>>)

\* C10: the list returned by suggest_ncm_node holds at least one candidate.
C10_ClassificationNonEmpty ==
    (pc \in {NodeFaq, END, "returned"} /\ Ran(NodeNcm))
    => (state.ncm_suggestions # None /\ Len(state.ncm_suggestions.val) >= 1)

----------------------------------------------------------------------------
(* Properties of the classification, attribute and FAQ nodes *)

\* the single-node call of the given node has returned
Returned(node) == sg_node = node /\ sg_pc \in {"merged", "done"}

\* the candidates returned by the classification node
StageCandidates == sg_delta.ncm_suggestions.val

\* the three confidence tiers ("Media" stands for the accented spelling)
ConfidenceTiers == {"Alta", "Media", "Baixa"}

TierRank(confidence) ==
    CASE confidence = "Alta" -> 3 [] confidence = "Media" -> 2 [] OTHER -> 1

InsufficientDataCandidate ==
    NCMSuggestion("N/A", "Dados insuficientes para analise.", "Baixa")

\* C11: the list returned by the classification stage is sorted by descending
\* confidence tier, whatever the order in which the model emits valid candidates.
C11_ClassificationSortedDescending ==
    (/\ Returned(NodeNcm)
     /\ \A i \in 1..Len(StageCandidates) :
           StageCandidates[i].confidence \in ConfidenceTiers)
    => \A i, j \in 1..Len(StageCandidates) :
          i < j => TierRank(StageCandidates[i].confidence)
                   >= TierRank(StageCandidates[j].confidence)

\* C12: the classification stage returns at most 3 candidates, however many
\* valid elements the model's array holds.
C12_AtMostThreeCandidates ==
    Returned(NodeNcm) => Len(StageCandidates) <= 3

\* the response cannot be decoded, or an element of the decoded array fails the
\* NCMSuggestion shape
ResponseFails(out) ==
    LET json_match == ExtractJsonBlock(out)
    IN  \/ json_match = None
        \/ json_match.val = JMalformed
        \/ \E i \in 1..Len(json_match.val.items) : ~ValidShape(json_match.val.items[i])

FailureDetails ==
    {"Falha geral no processamento: Bloco JSON nao encontrado",
     "Falha no parse do JSON",
     "Falha geral no processamento: Item JSON invalido"}

\* C13: when the response cannot be decoded, or any decoded element fails shape
\* validation, the stage returns exactly one fallback candidate (error code, low
\* confidence, explanation carrying the failure detail), never a partial list.
C13_AllOrFallback ==
    (/\ Returned(NodeNcm)
     /\ sg_llm.kind = "text"
     /\ ResponseFails(sg_llm.out))
    => /\ Len(StageCandidates) = 1
       /\ StageCandidates[1].ncm_code = "ERRO"
       /\ StageCandidates[1].confidence = "Baixa"
       /\ StageCandidates[1].explanation \in FailureDetails

\* two valid elements and one invalid element gave the single fallback candidate
C13_Witness ==
    /\ Returned(NodeNcm)
    /\ sg_llm.kind = "text"
    /\ LET json_match == ExtractJsonBlock(sg_llm.out)
       IN  /\ json_match # None
           /\ json_match.val # JMalformed
           /\ Len(json_match.val.items) = 3
           /\ Cardinality({i \in 1..3 : ValidShape(json_match.val.items[i])}) = 2
    /\ StageCandidates = NcmFallback("Falha geral no processamento: Item JSON invalido").val

\* C14: when the brief, the market context or the attribute map is absent, the
\* classification stage returns exactly one low-confidence 'insufficient data'
\* candidate and does not invoke the model.
C14_InsufficientDataShortCircuit ==
    (/\ Returned(NodeNcm)
     /\ \/ sg_state.product_input = None
        \/ sg_state.market_data = None
        \/ sg_state.key_attributes_to_fill = None)
    => /\ StageCandidates = <<InsufficientDataCandidate>>
       /\ sg_llm.kind = "not_called"

\* only the attribute map is absent
C14_Witness ==
    /\ Returned(NodeNcm)
    /\ sg_state.product_input # None
    /\ sg_state.market_data # None
    /\ sg_state.key_attributes_to_fill = None
    /\ StageCandidates = <<InsufficientDataCandidate>>

\* C15: every candidate returned by the classification stage has a confidence in
\* the closed set {Alta, Media, Baixa}; an element with any other confidence is
\* never returned.
C15_ConfidenceInClosedSet ==
    Returned(NodeNcm)
    => \A i \in 1..Len(StageCandidates) :
          StageCandidates[i].confidence \in ConfidenceTiers

\* C16: in every returned GeneratedAdContent each attribute value is a string or
\* the no-value marker; a list of the model appears joined with ", ", another
\* non-string scalar in its textual form, a string or null as it was.
C16_StringOnlyAttributes ==
    (/\ sg_node = NodeAttributes
     /\ sg_pc = "done"
     /\ sg_content # None)
    => LET raw == sg_llm.out.body.m
           attributes == sg_content.val.attributes
       IN  /\ DOMAIN attributes = DOMAIN raw
           /\ \A k \in DOMAIN raw :
                 /\ attributes[k].t \in {"str", "null"}
                 /\ raw[k].t = "list" => attributes[k] = JStr(JoinItems(raw[k].items))
                 /\ raw[k].t \in {"num", "bool"} => attributes[k] = JStr(PyStr(raw[k]))
                 /\ raw[k].t \in {"str", "null"} => attributes[k] = raw[k]

\* the content holds "1, x" for the list [1, "x"] and "True" for true
C16_Witness ==
    /\ sg_node = NodeAttributes
    /\ sg_pc = "done"
    /\ sg_content # None
    /\ sg_llm.out.body.m = [Cor |-> JList(<<JNum(1), JStr(<<"x">>)>>), Peso |-> JBool(TRUE)]
    /\ sg_content.val.attributes =
          [Cor |-> JStr(<<"1", ",", SP, "x">>), Peso |-> JStr(<<"T", "r", "u", "e">>)]

\* C17: normalising the mapping the attribute stage has normalised yields the same
\* mapping, so the attributes of the assembled content equal the stage's output.
C17_NormalizationIdempotent ==
    (/\ Returned(NodeAttributes)
     /\ "key_attributes_to_fill" \in DOMAIN sg_delta)
    => LET normalized == sg_delta.key_attributes_to_fill.val
       IN  /\ SanitizeAttributes(normalized) = normalized
           /\ sg_pc = "done" =>
                 /\ sg_content # None
                 /\ sg_content.val.attributes = normalized

\* the assembly re-normalised a mapping that came from a list and a two-character
\* string
C17_Witness ==
    /\ sg_node = NodeAttributes
    /\ sg_pc = "done"
    /\ sg_content # None
    /\ sg_llm.out.body.m = [Cor |-> JList(<<JStr(<<"x">>), JNull>>), Peso |-> JStr(<<"x", "y">>)]
    /\ sg_content.val.attributes = sg_delta.key_attributes_to_fill.val

\* no decoder, on the repaired text or on the bracketed substring, gives a list of
\* pergunta/resposta objects
NoStrategyRecovers(out) ==
    LET cleaned_output == FixJsonString(out)
        given == {cleaned_output.strict, cleaned_output.lenient}
                 \cup (IF cleaned_output.bracket = None THEN {}
                       ELSE {cleaned_output.bracket.val.strict,
                             cleaned_output.bracket.val.lenient})
    IN  \A o \in given : o = None \/ ~WellShapedFaq(o.val)

\* C18: for any text the model returns, the FAQ stage returns a dict without
\* error that holds the raw text unchanged and a parsed list; the parsed list is
\* empty when no strategy recovers a well-shaped list.
C18_FaqGracefulDegradation ==
    (/\ Returned(NodeFaq)
     /\ sg_llm.kind = "text")
    => /\ ~SetsError(sg_delta)
       /\ "raw_faq_output" \in DOMAIN sg_delta
       /\ sg_delta.raw_faq_output = Some(sg_llm.out)
       /\ "suggested_faq" \in DOMAIN sg_delta
       /\ sg_delta.suggested_faq # None
       /\ NoStrategyRecovers(sg_llm.out) => sg_delta.suggested_faq.val = <<>>

\* the only decodable value is a list with an element lacking resposta
C18_Witness ==
    /\ Returned(NodeFaq)
    /\ sg_llm.kind = "text"
    /\ sg_llm.out.text # <<>>
    /\ sg_llm.out.repaired.strict = None
    /\ sg_llm.out.repaired.lenient =
          Some(JList(<<QAItem, ItemObj([pergunta |-> "q"])>>))
    /\ NoStrategyRecovers(sg_llm.out)
    /\ sg_delta.suggested_faq = Some(<<>>)
    /\ sg_delta.raw_faq_output = Some(sg_llm.out)

\* C19: when prepare_context yields no context, the title, description, attribute
\* and FAQ stages each record a failure without invoking the model, the
\* classification stage returns its single insufficient-data candidate, and the
\* run goes through every stage to END.
C19_ContextFailureDegradesEveryStage ==
    (Ran(NodePrepare) /\ state.llm_context = None)
    => /\ llm_calls = <<>>
       /\ \A node \in GenerationStages : Ran(node) => node \in err_stages
       /\ Ran(NodeNcm) => state.ncm_suggestions = Some(<<InsufficientDataCandidate>>)
       /\ pc # "raised"
       /\ pc \in {END, "returned"} => executed = StageOrder

C19_Witness ==
    /\ pc = END
    /\ state.llm_context = None
    /\ executed = StageOrder
    /\ llm_calls = <<>>
    /\ GenerationStages \subseteq err_stages

\* C20: an exception from the model invocation of the title, description,
\* attribute, classification or FAQ stage becomes a state update (an error
\* message, or the classification fallback candidate) and the pipeline goes on to
\* the next stage.
C20_InvocationFailureBecomesStateUpdate ==
    \A node \in llm_failed :
       /\ Ran(node)
       /\ IF node = NodeNcm
          THEN state.ncm_suggestions = NcmFallback("Falha geral no processamento: invoke")
          ELSE node \in err_stages /\ state.error_message # None
       /\ \/ pc \in {END, "returned"} /\ executed = StageOrder
          \/ /\ Len(executed) < Len(StageOrder)
             /\ pc = StageOrder[Len(executed) + 1]

\* a run in which the title call and the classification call both raised
C20_Witness ==
    /\ pc = "returned"
    /\ {NodeTitles, NodeNcm} \subseteq llm_failed

----------------------------------------------------------------------------
(* Properties of the whole run *)

\* the call was made with a brief and a market context
PresentInputs == in_product_input # None /\ in_market_data # None

\* C21: an invocation with a present brief and market context runs each stage
\* exactly once, never re-enters a stage, and eventually reaches END and the
\* assembly, after which it has returned a content object or the absent value.
C21_TerminatesWithoutRetries ==
    /\ [](PresentInputs =>
            /\ \A i, j \in 1..Len(executed) : executed[i] = executed[j] => i = j
            /\ pc \in {END, "returned"} => executed = StageOrder)
    /\ (pc = "call" /\ PresentInputs) ~> (pc = "returned" /\ executed = StageOrder)

C21_Witness ==
    /\ PresentInputs
    /\ pc = "returned"
    /\ executed = StageOrder
    /\ result # None

\* C22: for any interleaving of two invocations, each made by a UI session after
\* selecting its provider, every stage of an invocation works on that invocation's
\* own state and with the provider its session selected.
C22_InvocationsIsolated ==
    \A s \in Sessions :
       /\ ss_clients[s] \subseteq {ss_selected[s]}
       /\ \A i \in 1..Len(ss_executed[s]) : ss_executed[s][i] = StageOrder[i]

\* the budget the claims expect the title stage to work with
SaneBudget(requested) ==
    IF requested = None THEN DefaultTitleLength
    ELSE IF requested.val \in MinSaneTitleLength..MaxSaneTitleLength THEN requested.val
    ELSE DefaultTitleLength

\* C23: generate_titles_node replaces an absent, zero or out-of-range budget by
\* 60, truncates with the budget it works with, and leaves that budget (60, or
\* the unchanged sane value) in the state.
C23_BudgetWrittenBack ==
    Returned(NodeTitles)
    => Merge(sg_state, sg_delta).max_title_length
          = Some(SaneBudget(sg_state.max_title_length))

\* C23, amended: when the model call returns, the titles are those parse_titles
\* gives for the substituted budget and that budget is written to the state; when
\* the context is absent or the call raises, only an error message is returned and
\* the budget in the state stays as it was.
C23_BudgetWrittenBackOnSuccess ==
    Returned(NodeTitles)
    => LET budget == SaneBudget(sg_state.max_title_length)
       IN  IF sg_llm.kind = "text"
           THEN /\ sg_delta.max_title_length = Some(budget)
                /\ sg_delta.titles = ParseTitles(Some(sg_llm.out), Some(budget))
                /\ \A i \in 1..Len(sg_delta.titles) : Len(sg_delta.titles[i]) <= budget
           ELSE /\ DOMAIN sg_delta = {"error_message"}
                /\ Merge(sg_state, sg_delta).max_title_length = sg_state.max_title_length

\* a budget below the range was replaced by 60 and a line of 61 characters cut
C23_Witness ==
    /\ Returned(NodeTitles)
    /\ sg_state.max_title_length = Some(MinSaneTitleLength - 1)
    /\ sg_llm.kind = "text"
    /\ Len(sg_llm.out) = DefaultTitleLength + 1
    /\ sg_delta.max_title_length = Some(DefaultTitleLength)
    /\ Len(sg_delta.titles) = 1
    /\ Len(sg_delta.titles[1]) <= DefaultTitleLength

\* a title opens with a list marker: a dash or an asterisk and a blank, or a
\* number, a dot and a blank
HasListMarker(title) ==
    \/ /\ Len(title) >= 2
       /\ title[1] \in {"-", "*"}
       /\ title[2] = SP
    \/ /\ Len(title) >= 3
       /\ title[1] \in {"0", "1", "2", "3", "4", "5", "6", "7", "8", "9"}
       /\ title[2] = "."
       /\ title[3] = SP

\* C24: parse_titles removes the leading list marker (dashes, asterisks or
\* numbers) of every line, so no returned title starts with a list marker.
C24_ListMarkersStripped ==
    pt_pc = "done" => \A i \in 1..Len(pt_result) : ~HasListMarker(pt_result[i])

\* the attribute output does not decode, or decodes to something that is not a
\* mapping
AttributeOutputFails(out) ==
    \/ out.fence = "plain"
    \/ out.body = JMalformed
    \/ out.body.t # "dict"

\* C25: when the attribute output fails to decode or is not a mapping, the
\* attribute stage returns a state update that sets an error message and writes no
\* attribute mapping, so the mapping of the state stays without entries.
C25_AttributeFailurePath ==
    (/\ Returned(NodeAttributes)
     /\ sg_llm.kind = "text"
     /\ AttributeOutputFails(sg_llm.out))
    => /\ SetsError(sg_delta)
       /\ "key_attributes_to_fill" \notin DOMAIN sg_delta
       /\ Merge(sg_state, sg_delta)["key_attributes_to_fill"] = None

\* a mapping with entries inside a fence without the json tag, and an array
C25_Witness ==
    /\ Returned(NodeAttributes)
    /\ sg_llm.kind = "text"
    /\ SetsError(sg_delta)
    /\ \/ /\ sg_llm.out.fence = "plain"
          /\ sg_llm.out.body = JDict([Cor |-> JStr(<<"x", "y">>), Peso |-> JNum(0)])
       \/ /\ sg_llm.out.fence = "json"
          /\ sg_llm.out.body = JList(<<>>)

\* what each decoding strategy gives for the repaired text, in the order of
\* lines 297-321
StrategyOutcomes(cleaned_output) ==
    <<cleaned_output.strict, cleaned_output.lenient>>
    \o (IF cleaned_output.bracket = None THEN <<>>
        ELSE <<cleaned_output.bracket.val.strict, cleaned_output.bracket.val.lenient>>)

\* the outcome of the first strategy that succeeds, None when none does
FirstSuccess(outcomes) ==
    LET succeeded == {i \in 1..Len(outcomes) : outcomes[i] # None}
    IN  IF succeeded = {} THEN None
        ELSE outcomes[CHOOSE i \in succeeded : \A j \in succeeded : i <= j]

\* C26: the FAQ stage takes the value of the first strategy that succeeds, in the
\* order strict decode, lenient decode, strict decode of the extracted array,
\* lenient decode of the extracted array; a later strategy never replaces it, even
\* when the first value is rejected by the shape check.
C26_FirstStrategyWins ==
    (/\ Returned(NodeFaq)
     /\ sg_llm.kind = "text")
    => LET first == FirstSuccess(StrategyOutcomes(FixJsonString(sg_llm.out)))
       IN  sg_delta.suggested_faq =
              Some(IF first # None /\ WellShapedFaq(first.val)
                   THEN first.val.items ELSE <<>>)

\* the lenient decoder gives a dict and the extracted array would have given a
\* well-shaped list: the dict is used and the structured list is empty
C26_Witness ==
    /\ Returned(NodeFaq)
    /\ sg_llm.kind = "text"
    /\ sg_llm.out.text # <<>>
    /\ sg_llm.out.repaired.strict = None
    /\ sg_llm.out.repaired.lenient = Some(JDict(<<>>))
    /\ sg_llm.out.repaired.bracket # None
    /\ sg_llm.out.repaired.bracket.val.strict = Some(JList(<<QAItem>>))
    /\ sg_delta.suggested_faq = Some(<<>>)

\* the FAQ stage has run and a content has been assembled from its state
FaqAssembled == sg_node = NodeFaq /\ sg_pc = "done" /\ sg_content # None

\* C27 as stated: a non-empty structured list always puts a Q/A block built from it
\* after the description and the raw text is not consulted; without a structured
\* list what the recovery path finds in a present raw text is appended; otherwise
\* the description is the stripped description text alone.
C27_FaqMergePriority ==
    FaqAssembled
    => LET final_state == Merge(sg_state, sg_delta)
           faq_list    == final_state.suggested_faq.val
           raw_faq     == final_state.raw_faq_output.val
           combined    == sg_content.val.suggested_description
       IN  /\ combined.text = Strip(final_state.raw_description_output.val)
           /\ faq_list # <<>>
                 => /\ combined.faq # <<>>
                    /\ combined.faq = FormatPairs(StructuredPairs(faq_list))
                    /\ combined.bullets = <<>>
           /\ faq_list = <<>> /\ raw_faq.text # <<>>
                 => /\ combined.faq = FormatPairs(raw_faq.recovered)
                    /\ combined.bullets =
                          IF raw_faq.recovered = <<>> THEN raw_faq.bullets ELSE <<>>
           /\ faq_list = <<>> /\ raw_faq.text = <<>>
                 => combined.faq = <<>> /\ combined.bullets = <<>>

\* C27 (amended): a non-empty structured list decides alone what is appended, the
\* paragraphs of those of its items that have both a question and an answer, which
\* may be none; the raw text is consulted only when the structured list is empty.
C27_FaqMergePriorityOfAnsweredItems ==
    FaqAssembled
    => LET final_state == Merge(sg_state, sg_delta)
           faq_list    == final_state.suggested_faq.val
           raw_faq     == final_state.raw_faq_output.val
           combined    == sg_content.val.suggested_description
           answered    == {i \in 1..Len(faq_list) :
                              /\ FaqGet(faq_list[i].f, "pergunta") # ""
                              /\ FaqGet(faq_list[i].f, "resposta") # ""}
       IN  /\ combined.text = Strip(final_state.raw_description_output.val)
           /\ faq_list # <<>>
                 => /\ Len(combined.faq) = Cardinality(answered)
                    /\ combined.faq = FormatPairs(StructuredPairs(faq_list))
                    /\ combined.bullets = <<>>
           /\ faq_list = <<>> /\ raw_faq.text # <<>>
                 => /\ combined.faq = FormatPairs(raw_faq.recovered)
                    /\ combined.bullets =
                          IF raw_faq.recovered = <<>> THEN raw_faq.bullets ELSE <<>>
           /\ faq_list = <<>> /\ raw_faq.text = <<>>
                 => combined.faq = <<>> /\ combined.bullets = <<>>

\* the structured list holds one item without answer while the raw text would
\* have given bullet lines: nothing is appended to the stripped description
C27_Witness ==
    /\ FaqAssembled
    /\ sg_delta.suggested_faq = Some(<<ItemObj(QAUnanswered)>>)
    /\ sg_llm.out.recovered = <<>>
    /\ sg_llm.out.bullets = <<"t">>
    /\ sg_content.val.suggested_description =
          [text |-> <<"d">>, faq |-> <<>>, bullets |-> <<>>]

\* the output slots of each stage
OwnSlots(node) ==
    CASE node = NodePrepare -> {"llm_context"}
      [] node = NodeTitles -> {"raw_titles_output"}
      [] node = NodeDescription -> {"raw_description_output"}
      [] node = NodeAttributes -> {"key_attributes_to_fill"}
      [] node = NodeNcm -> {"ncm_suggestions", "suggested_ncm", "suggested_ncm_explanation"}
      [] node = NodeFaq -> {"suggested_faq", "raw_faq_output"}

\* the step taken is the run of this stage
StageRuns(node) == pc = node /\ executed' = Append(executed, node)

\* the channels whose value the step changes
Written == {k \in StateKeys : state'[k] # state[k]}

\* C28 as stated: a stage changes only its own output slots and the error message;
\* the brief, the market context, the formatted context, the title budget and the
\* slots of the other stages keep their values.
C28_StageFrame ==
    [][\A node \in Nodes :
           StageRuns(node) => Written \subseteq OwnSlots(node) \cup {"error_message"}]_vars

\* C28 (amended): the same, except that the title stage, when the model call
\* returns, replaces a title budget that is absent or outside the sane range by the
\* default; a sane budget and every other channel keep their values.
C28_StageFrameExceptBudget ==
    [][\A node \in Nodes :
           StageRuns(node)
           => /\ Written \subseteq OwnSlots(node) \cup {"error_message", "max_title_length"}
              /\ "max_title_length" \in Written
                    => /\ node = NodeTitles
                       /\ state'.raw_titles_output # None
                       /\ state.max_title_length # Some(SaneBudget(state.max_title_length))
                       /\ state'.max_title_length = Some(DefaultTitleLength)]_vars

\* the whole chain has run on a budget of 501: the brief, the market context and
\* the context are those of the call, the budget is the default
C28_Witness ==
    /\ pc = END
    /\ executed = StageOrder
    /\ in_max_title_length = Some(MaxSaneTitleLength + 1)
    /\ state.max_title_length = Some(DefaultTitleLength)
    /\ state.product_input = in_product_input
    /\ state.market_data = in_market_data
    /\ state.llm_context # None
    /\ state.raw_titles_output # None
    /\ state.suggested_faq # None

\* C29: once the state holds an error message, every stage after prepare_context
\* leaves it non-empty; a stage that does not fail leaves it as it is, and only a
\* failing stage changes its text.
C29_ErrorLatch ==
    [][\A node \in Nodes \ {NodePrepare} :
           (StageRuns(node) /\ state.error_message # None)
           => /\ state'.error_message # None
              /\ node \notin err_stages' \ err_stages
                    => state'.error_message = state.error_message]_vars

\* the title stage failed on a raising model call, every later stage ran without
\* failing, and its message is still in the state at END
C29_Witness ==
    /\ pc = END
    /\ executed = StageOrder
    /\ err_stages = {NodeTitles}
    /\ llm_failed = {NodeTitles}
    /\ state.raw_description_output # None
    /\ state.key_attributes_to_fill # None
    /\ state.error_message = Some("Erro na geracao de titulos")

\* C30: the titles of a returned content are parse_titles of the raw title output
\* with the budget the title stage stored in the state, and they are the list the
\* stage itself parsed; they are at most 5 and each is within that budget.
C30_AuthoritativeTitles ==
    (pc = "returned" /\ result # None)
    => LET suggested_titles == result.val.suggested_titles
       IN  /\ state.max_title_length # None
           /\ state.max_title_length.val \in MinSaneTitleLength..MaxSaneTitleLength
           /\ suggested_titles =
                 ParseTitles(state.raw_titles_output, state.max_title_length)
           /\ node_titles = Some(suggested_titles)
           /\ Len(suggested_titles) <= MaxTitles
           /\ \A i \in 1..Len(suggested_titles) :
                 Len(suggested_titles[i]) <= state.max_title_length.val

\* a content is returned whose title was cut to the budget of a category limit,
\* which is not the default
C30_Witness ==
    /\ pc = "returned"
    /\ result # None
    /\ in_max_title_length = None
    /\ state.max_title_length = Some(CategoryLimit("MLB1246"))
    /\ \E i \in 1..Len(result.val.suggested_titles) :
          Len(result.val.suggested_titles[i]) = CategoryLimit("MLB1246")
    /\ \E i \in 1..Len(state.raw_titles_output.val) :
          state.raw_titles_output.val[i] = SP

====
